---- MODULE Spec2Model ----
(***************************************************************************)
(* Model of the NFT sniper bot: the command handlers of NFTSniperBot       *)
(* (start/stop monitoring, floor price, settings, set_multiplier,          *)
(* set_interval, buy) and the poll task monitor_listings, under asyncio's  *)
(* cooperative scheduling.                                                  *)
(*                                                                         *)
(* Scheduling.  The marketplace client's coroutines (get_floor_price,      *)
(* get_listings, has_accessories, buy_nft) call the blocking requests /    *)
(* web3 APIs and contain no await, so awaiting them never yields to the    *)
(* event loop.  The poll task therefore suspends only in asyncio.sleep     *)
(* (lines 155 and 193) and in context.bot.send_message (line 179); a       *)
(* handler suspends only in its Telegram replies.  Each action below is    *)
(* the code that runs between two suspensions.  task.cancel() marks the    *)
(* task; the CancelledError is delivered when the task is next resumed,    *)
(* and the resumption of tasks is interleaved freely with the handlers.    *)
(*                                                                         *)
(* Numbers.  Decimal amounts are kept in hundredths: a price of 1.05 ETH   *)
(* is 105 and a multiplier of 1.1 is 110, so floor * multiplier is in      *)
(* ten-thousandths and price <= floor * multiplier is                      *)
(* price * 100 <= floor * multiplier.                                       *)
(***************************************************************************)
EXTENDS Integers, Sequences, FiniteSets, TLC

VARIABLES is_running, task, max_price_multiplier, check_interval,
          tasks, buying, out, boot

vars == <<is_running, task, max_price_multiplier, check_interval,
          tasks, buying, out, boot>>

----------------------------------------------------------------------------
(* Bounds and inputs *)

\* Number of poll tasks that start_monitor may create in one run.
MaxTasks == 2

TaskIds == 1..MaxTasks

\* No task handle (self.task = None).
NoTask == 0

\* Telegram user ids; ALLOWED_USERS is the allow-list of Config.
Users == {1, 2}
ALLOWED_USERS == {1}

\* The environment's MAX_PRICE_MULTIPLIER / CHECK_INTERVAL: unset (the
\* defaults '1.1' and '60') or set by the operator; Config reads them with
\* float() / int() and validate() checks neither.
EnvSettings ==
    { [MAX_PRICE_MULTIPLIER |-> 110, CHECK_INTERVAL |-> 60],
      [MAX_PRICE_MULTIPLIER |-> 250, CHECK_INTERVAL |-> 5] }

\* Results of get_floor_price: <<>> is None (fetch or parse failure), <<p>> a
\* floor price of p hundredths.
FloorResults == { <<>>, <<0>>, <<100>> }

\* A listing: token id, price amount (<<>> when the amount is not a number)
\* and the answer has_accessories gives for the token (FALSE also when the
\* trait lookup fails).
Listing(tok, amount, acc) == [token_id |-> tok, amount |-> amount, acc |-> acc]

\* Results of get_listings: ascending by price as requested from the API
\* (order_by price, order_direction asc); <<>> also stands for a failed fetch.
Batches ==
    { <<>>,
      << Listing("A", <<90>>, FALSE), Listing("B", <<105>>, TRUE),
         Listing("C", <<120>>, TRUE) >>,
      << Listing("A", <<90>>, TRUE), Listing("B", <<110>>, TRUE),
         Listing("C", <<120>>, TRUE) >>,
      << Listing("A", <<90>>, TRUE), Listing("B", <<>>, TRUE),
         Listing("C", <<100>>, TRUE) >> }

\* Token ids a buy command may name ("Z" is listed nowhere).
BuyTokens == {"A", "Z"}

\* Command arguments (context.args): none, or one word.  A word is text that
\* is no number, the word NaN, or a decimal literal of `units` hundredths
\* written without a fraction part (isint) or with one.
NoArg == [kind |-> "missing", units |-> 0, isint |-> FALSE]
Word(kind, units, isint) == [kind |-> kind, units |-> units, isint |-> isint]

MultiplierArgs ==
    { NoArg, Word("text", 0, FALSE), Word("nan", 0, FALSE),
      Word("num", 0, TRUE), Word("num", 200, TRUE), Word("num", 201, FALSE) }

IntervalArgs ==
    { NoArg, Word("text", 0, FALSE), Word("num", 4550, FALSE),
      Word("num", 2900, TRUE), Word("num", 3000, TRUE),
      Word("num", 360100, TRUE) }

----------------------------------------------------------------------------
(* Parsing of command arguments *)

\* Decimal(context.args[0]): IndexError without an argument,
\* decimal.InvalidOperation (an ArithmeticError, not a ValueError) for text
\* that is no number; 'NaN' parses to the NaN value.
DecimalParse(arg) ==
    CASE arg.kind = "missing" -> [raised |-> "IndexError", nan |-> FALSE, v |-> 0]
      [] arg.kind = "text"    -> [raised |-> "InvalidOperation", nan |-> FALSE, v |-> 0]
      [] arg.kind = "nan"     -> [raised |-> "none", nan |-> TRUE, v |-> 0]
      [] OTHER                -> [raised |-> "none", nan |-> FALSE, v |-> arg.units]

\* int(context.args[0]): IndexError without an argument, ValueError for
\* anything but an integer literal.
IntParse(arg) ==
    CASE arg.kind = "missing" -> [raised |-> "IndexError", v |-> 0]
      [] arg.kind = "num" /\ arg.isint -> [raised |-> "none", v |-> arg.units \div 100]
      [] OTHER -> [raised |-> "ValueError", v |-> 0]

----------------------------------------------------------------------------
(* The poll task: NFTSniperBot.monitor_listings *)

\* A task that holds no coroutine frame: not created yet, created and not yet
\* run, or finished.
Frame(pc) ==
    [pc |-> pc, cancelled |-> FALSE, floor_price |-> <<>>, max_price |-> 0,
     listings |-> <<>>, i |-> 0, ceilings |-> {}, stale |-> FALSE,
     looked |-> <<>>, sent |-> <<>>, multiplier0 |-> 0, interval0 |-> 0,
     slept |-> 0, failed |-> FALSE]

\* A task is live from create_task until its coroutine has returned or raised.
Live(t) == tasks[t].pc \notin {"none", "done"}

\* `if not floor_price`: None and Decimal(0) are both falsy.
Falsy(fp) == fp = <<>> \/ fp[1] = 0

\* The external calls one step makes and what a handler answers; a step of the
\* poll task answers nobody.
Out(op, user, reply, raised, calls, data) ==
    [op |-> op, user |-> user, reply |-> reply, raised |-> raised,
     calls |-> calls, data |-> data]

\* The price ceiling a comparison of the scan uses: the local max_price,
\* computed once per iteration at line 158.
CeilingNow(f) == f.floor_price[1] * max_price_multiplier
Ceiling(f) == f.max_price

\* `if price <= max_price` (line 168), price in hundredths and the ceiling in
\* ten-thousandths.
PriceBelow(price, ceiling) == price * 100 < ceiling
PriceNotChecked(price, ceiling) == TRUE
PriceWithin(price, ceiling) == price * 100 <= ceiling

\* `elif price > max_price` (line 184).
PriceAbove(price, ceiling) == price * 100 > ceiling

\* The argument of asyncio.sleep at lines 155 and 193: self.check_interval as
\* it is when the sleep is called.
SleepArgument(f) == check_interval

\* What the end of an iteration would be without the `except Exception` of
\* line 190: the failure leaves the coroutine and the task is finished.
EndOfIterationRaise(f, failed) ==
    IF failed THEN Frame("done")
    ELSE [f EXCEPT !.pc = "sleep", !.slept = SleepArgument(f), !.interval0 = 0,
                   !.failed = failed]

\* `await asyncio.sleep(self.check_interval)` at line 193, reached when the
\* for loop ends, breaks, or an Exception was caught at line 190.
EndOfIteration(f, failed) ==
    [f EXCEPT !.pc = "sleep", !.slept = SleepArgument(f), !.interval0 = 0,
              !.failed = failed]

\* Lines 161-185 from listing k on, up to the next suspension: the send of a
\* match notification (pc "send") or the sleep that ends the iteration.
RECURSIVE Scan(_, _)
Scan(f, k) ==
    IF k > Len(f.listings) THEN EndOfIteration(f, FALSE)
    ELSE IF ~is_running THEN EndOfIteration(f, FALSE)
    ELSE LET l == f.listings[k] IN
         IF l.amount = <<>> THEN EndOfIteration([f EXCEPT !.i = k], TRUE)
         ELSE LET price == l.amount[1]
                  g == [f EXCEPT !.i = k,
                          !.ceilings = @ \cup {Ceiling(f)},
                          !.stale = @ \/ max_price_multiplier # f.multiplier0]
              IN IF PriceWithin(price, Ceiling(f))
                 THEN LET h == [g EXCEPT !.looked = Append(@, k)] IN
                      IF l.acc
                      THEN [h EXCEPT !.pc = "send", !.sent = Append(@, k)]
                      ELSE Scan(h, k + 1)
                 ELSE IF PriceAbove(price, Ceiling(f))
                 THEN EndOfIteration(g, FALSE)
                 ELSE Scan(g, k + 1)

\* What lines 154-156 would be with `break` in place of sleep and continue.
RetryGivesUp(f) == Frame("done")

\* Lines 154-156: without a usable floor price the task sleeps one interval
\* and goes back to the loop test.
RetrySleep(f) ==
    [f EXCEPT !.pc = "sleep_retry", !.slept = SleepArgument(f), !.interval0 = 0]

\* One pass of the while loop from its test at line 151, with the results the
\* marketplace gives for the floor price and the listings.
Iteration(fp, batch) ==
    IF ~is_running THEN Frame("done")
    ELSE LET f0 == [Frame("run") EXCEPT !.floor_price = fp,
                       !.multiplier0 = max_price_multiplier,
                       !.interval0 = check_interval]
         IN IF Falsy(fp)
            THEN RetrySleep(f0)
            ELSE Scan([f0 EXCEPT !.max_price = fp[1] * max_price_multiplier,
                                 !.listings = batch], 1)

\* The external calls of one step of the poll task that took the frame from
\* `before` to `after`; `began` when the step ran the top of an iteration.
PollCalls(began, before, after) ==
    (IF began THEN {"get_floor_price"} ELSE {})
    \cup (IF began /\ ~Falsy(after.floor_price) THEN {"get_listings"} ELSE {})
    \cup (IF Len(after.looked) > Len(before.looked) THEN {"has_accessories"} ELSE {})
    \cup (IF Len(after.sent) > Len(before.sent) THEN {"send_message"} ELSE {})
PollOut(calls) == Out("poll", 0, "none", "none", calls, <<>>)

\* The event loop resumes a task that was created or sleeps, and that nobody
\* cancelled: it runs the loop test and one iteration up to its suspension.
\* get_listings is called only when the loop goes on and the floor price is
\* usable.
TaskIterate(t) ==
    /\ tasks[t].pc \in {"created", "sleep_retry", "sleep"}
    /\ ~tasks[t].cancelled
    /\ \E fp \in FloorResults :
          \E batch \in IF is_running /\ ~Falsy(fp) THEN Batches ELSE {<<>>} :
             LET f == Iteration(fp, batch) IN
             /\ tasks' = [tasks EXCEPT ![t] = f]
             /\ out' = PollOut(IF f.pc = "done" THEN {}
                               ELSE PollCalls(TRUE, Frame("run"), f))
    /\ UNCHANGED <<boot, is_running, task, max_price_multiplier, check_interval, buying>>

\* What TaskSendReturn would be if a pending cancellation were not delivered
\* at the await of line 179.
TaskSendReturnDespiteCancel(t) ==
    /\ tasks[t].pc = "send"
    /\ LET f == Scan(tasks[t], tasks[t].i + 1) IN
          /\ tasks' = [tasks EXCEPT ![t] = f]
          /\ out' = PollOut(PollCalls(FALSE, tasks[t], f))
    /\ UNCHANGED <<boot, is_running, task, max_price_multiplier, check_interval, buying>>

\* send_message returned: the for loop goes on with the next listing.
TaskSendReturn(t) ==
    /\ tasks[t].pc = "send"
    /\ ~tasks[t].cancelled
    /\ LET f == Scan(tasks[t], tasks[t].i + 1) IN
          /\ tasks' = [tasks EXCEPT ![t] = f]
          /\ out' = PollOut(PollCalls(FALSE, tasks[t], f))
    /\ UNCHANGED <<boot, is_running, task, max_price_multiplier, check_interval, buying>>

\* send_message raised (a Telegram or network error): caught at line 190,
\* logged, and the iteration ends with the sleep of line 193.
TaskSendError(t) ==
    /\ tasks[t].pc = "send"
    /\ ~tasks[t].cancelled
    /\ tasks' = [tasks EXCEPT ![t] = EndOfIteration(tasks[t], TRUE)]
    /\ out' = PollOut({})
    /\ UNCHANGED <<boot, is_running, task, max_price_multiplier, check_interval, buying>>

\* What TaskCancelled would be if the CancelledError were swallowed like the
\* other exceptions (line 190): the task goes on to the sleep of line 193.
TaskCancelledSwallowed(t) ==
    /\ Live(t)
    /\ tasks[t].cancelled
    /\ tasks' = [tasks EXCEPT ![t] = EndOfIteration(Frame("sleep"), TRUE)]
    /\ out' = PollOut({})
    /\ UNCHANGED <<boot, is_running, task, max_price_multiplier, check_interval, buying>>

\* A cancelled task is resumed with CancelledError: before its first step the
\* coroutine never runs; in the sleep of line 155 or the send of line 179 the
\* error is caught at line 187 and breaks the loop; in the sleep of line 193
\* it leaves the coroutine.  The task is finished in every case.
TaskCancelled(t) ==
    /\ Live(t)
    /\ tasks[t].cancelled
    /\ tasks' = [tasks EXCEPT ![t] = Frame("done")]
    /\ out' = PollOut({})
    /\ UNCHANGED <<boot, is_running, task, max_price_multiplier, check_interval, buying>>

----------------------------------------------------------------------------
(* The command handlers of NFTSniperBot.  The Application is built without *)
(* concurrent updates, so an update is dispatched when the handler of the  *)
(* one before it has returned.                                              *)

NoBuy == <<>>

AuthorizedAnyone(u) == TRUE
Authorized(u) == u \in ALLOWED_USERS

\* asyncio.create_task: the next unused task id.
NewTask == CHOOSE t \in TaskIds : tasks[t].pc = "none" /\ \A s \in 1..(t - 1) : tasks[s].pc # "none"

CancelNothing(t) == tasks

\* Task.cancel(): requests cancellation of a task that has not finished.  The
\* coroutine never reads its locals again, and all that is left to it is the
\* CancelledError: what is kept of the frame is whether the task is in the
\* send of line 179 or waits elsewhere (not yet started, or in one of the
\* sleeps).
Cancel(t) ==
    IF Live(t)
    THEN [tasks EXCEPT ![t] =
            [Frame(IF tasks[t].pc = "send" THEN "send" ELSE "sleep")
                EXCEPT !.cancelled = TRUE]]
    ELSE tasks

\* `if not self.is_running` of the start_monitor button.
MayStartAlways == TRUE
MayStart == ~is_running

\* Button start_monitor (lines 61-71).
StartMonitor(u) ==
    /\ buying = NoBuy
    /\ IF MayStart
       THEN /\ \E t \in TaskIds : tasks[t].pc = "none"
            /\ is_running' = TRUE
            /\ task' = NewTask
            /\ tasks' = [tasks EXCEPT ![NewTask] = Frame("created")]
            /\ out' = Out("start_monitor", u, "started", "none", {}, <<>>)
       ELSE /\ out' = Out("start_monitor", u, "already_running", "none", {}, <<>>)
            /\ UNCHANGED <<is_running, task, tasks>>
    /\ UNCHANGED <<boot, max_price_multiplier, check_interval, buying>>

\* `if self.is_running and self.task` of the stop_monitor button.
MayStopWithTask == task # NoTask
MayStop == is_running /\ task # NoTask

\* Button stop_monitor (lines 73-79).
StopMonitor(u) ==
    /\ buying = NoBuy
    /\ IF MayStop
       THEN /\ is_running' = FALSE
            /\ tasks' = Cancel(task)
            /\ out' = Out("stop_monitor", u, "stopped", "none", {}, <<>>)
       ELSE /\ out' = Out("stop_monitor", u, "not_running", "none", {}, <<>>)
            /\ UNCHANGED <<is_running, tasks>>
    /\ UNCHANGED <<boot, task, max_price_multiplier, check_interval, buying>>

\* `if floor_price:` of the floor_price button (lines 83-92) once
\* get_floor_price has returned fp: the floor and floor x multiplier, or
\* "Couldn't fetch floor price".
FloorPriceReply(u, fp) ==
    IF ~Falsy(fp)
    THEN Out("floor_price", u, "floor_price", "none", {"get_floor_price"},
             <<fp[1], fp[1] * max_price_multiplier>>)
    ELSE Out("floor_price", u, "fetch_failed", "none", {"get_floor_price"}, <<>>)

\* Button floor_price (lines 81-92).
FloorPrice(u) ==
    /\ buying = NoBuy
    /\ \E fp \in FloorResults : out' = FloorPriceReply(u, fp)
    /\ UNCHANGED <<boot, is_running, task, max_price_multiplier, check_interval, tasks, buying>>

\* Button settings (lines 94-103).
Settings(u) ==
    /\ buying = NoBuy
    /\ out' = Out("settings", u, "settings", "none", {},
                  <<max_price_multiplier, check_interval>>)
    /\ UNCHANGED <<boot, is_running, task, max_price_multiplier, check_interval, tasks, buying>>

\* `except (IndexError, ValueError)` of both setters.
Caught(exc) == exc \in {"IndexError", "ValueError"}

\* `new_multiplier <= 0 or new_multiplier > 2` (multiplier in hundredths).
MultiplierRejectedBelowZero(v) == v < 0 \/ v > 200
MultiplierRejected(v) == v <= 0 \/ v > 200

\* `new_interval < 30 or new_interval > 3600`.
IntervalRejected(v) == v < 30 \/ v > 3600

\* What a setter does with an exception raised in its try block: the reply of
\* the except clause, or the exception leaves the handler and nobody is
\* answered.
SetterFailure(op, u, exc) ==
    IF Caught(exc)
    THEN Out(op, u, "invalid_number", "none", {}, <<>>)
    ELSE Out(op, u, "none", exc, {}, <<>>)

\* Command /set_multiplier (lines 105-125).  Comparing the NaN Decimal with 0
\* raises decimal.InvalidOperation.
SetMultiplier(u, arg) ==
    /\ buying = NoBuy
    /\ LET p == DecimalParse(arg) IN
       IF ~Authorized(u)
       THEN /\ out' = Out("set_multiplier", u, "none", "none", {}, <<>>)
            /\ UNCHANGED max_price_multiplier
       ELSE IF p.raised # "none"
       THEN /\ out' = SetterFailure("set_multiplier", u, p.raised)
            /\ UNCHANGED max_price_multiplier
       ELSE IF p.nan
       THEN /\ out' = SetterFailure("set_multiplier", u, "InvalidOperation")
            /\ UNCHANGED max_price_multiplier
       ELSE IF MultiplierRejected(p.v)
       THEN /\ out' = Out("set_multiplier", u, "out_of_range", "none", {}, <<>>)
            /\ UNCHANGED max_price_multiplier
       ELSE /\ max_price_multiplier' = p.v
            /\ out' = Out("set_multiplier", u, "multiplier_set", "none", {}, <<p.v>>)
    /\ UNCHANGED <<boot, is_running, task, check_interval, tasks, buying>>

\* Command /set_interval (lines 127-147).
SetInterval(u, arg) ==
    /\ buying = NoBuy
    /\ LET p == IntParse(arg) IN
       IF ~Authorized(u)
       THEN /\ out' = Out("set_interval", u, "none", "none", {}, <<>>)
            /\ UNCHANGED check_interval
       ELSE IF p.raised # "none"
       THEN /\ out' = SetterFailure("set_interval", u, p.raised)
            /\ UNCHANGED check_interval
       ELSE IF IntervalRejected(p.v)
       THEN /\ out' = Out("set_interval", u, "out_of_range", "none", {}, <<>>)
            /\ UNCHANGED check_interval
       ELSE /\ check_interval' = p.v
            /\ out' = Out("set_interval", u, "interval_set", "none", {}, <<p.v>>)
    /\ UNCHANGED <<boot, is_running, task, max_price_multiplier, tasks, buying>>

\* next((l for l in listings if l['asset']['token_id'] == token_id), None):
\* the index of the first listing of the token, 0 for None.
FindListingFirst(listings, tok) == IF Len(listings) > 0 THEN 1 ELSE 0
FindListing(listings, tok) ==
    IF \E k \in 1..Len(listings) : listings[k].token_id = tok
    THEN CHOOSE k \in 1..Len(listings) :
            /\ listings[k].token_id = tok
            /\ \A j \in 1..(k - 1) : listings[j].token_id # tok
    ELSE 0

\* `if update.effective_user.id not in Config.ALLOWED_USERS: return` of
\* buy_command (lines 197-198).
BuyAllowedAnyone(u) == TRUE
BuyAllowed(u) == Authorized(u)

\* Lines 206-218 of buy_command once get_listings has returned `batch` ([]
\* when the fetch failed): the listing of the token is looked up; without it
\* the handler answers "not found" and returns.
BuyFrom(u, tok, batch) ==
    LET k == FindListing(batch, tok) IN
    IF k = 0
    THEN /\ out' = Out("buy", u, "not_found", "none", {"get_listings"}, <<>>)
         /\ UNCHANGED buying
    ELSE /\ out' = Out("buy", u, "attempting", "none", {"get_listings"}, <<>>)
         /\ buying' = <<[user |-> u, token_id |-> batch[k].token_id]>>

\* A buy message (lines 195-218): the text is its first five characters
\* `head` and the rest `tok`.  The handler re-fetches the listings, answers
\* "not found" or announces the attempt and suspends in that reply.
BuyCommand(u, head, tok) ==
    /\ buying = NoBuy
    /\ IF ~BuyAllowed(u) \/ head # "/buy_"
       THEN /\ out' = Out("buy", u, "none", "none", {}, <<>>)
            /\ UNCHANGED buying
       ELSE \E batch \in Batches : BuyFrom(u, tok, batch)
    /\ UNCHANGED <<boot, is_running, task, max_price_multiplier, check_interval, tasks>>

\* The rest of buy_command (lines 219-229): buy_nft returns a receipt or None.
BuyExecute ==
    /\ buying # NoBuy
    /\ \E receipt \in BOOLEAN :
          out' = Out("buy", buying[1].user,
                     IF receipt THEN "purchased" ELSE "purchase_failed",
                     "none", {"buy_nft"}, <<>>)
    /\ buying' = NoBuy
    /\ UNCHANGED <<boot, is_running, task, max_price_multiplier, check_interval, tasks>>

----------------------------------------------------------------------------
(* The system *)

\* The state of the monitor.
monitor == <<is_running, task, max_price_multiplier, check_interval, tasks>>

\* The names Config.validate requires (config.py lines 27-33).
RequiredVars ==
    {"OPENSEA_API_KEY", "ETH_PRIVATE_KEY", "ETHEREUM_RPC_URL",
     "TELEGRAM_TOKEN", "ALLOWED_USERS"}

\* The components of the process: OpenSeaMonitor, the NFTSniperBot with its
\* monitor state, and the telegram Application with the handlers.
Components == {"marketplace_client", "monitor", "command_interface"}

\* The progress of the process start: where it is, the required variables
\* the environment sets, the components constructed, whether Config.validate
\* has returned, and the exception that ended it.
Boot(pc, present, built, validated, raised, missing) ==
    [pc |-> pc, present |-> present, built |-> built,
     validated |-> validated, raised |-> raised, missing |-> missing]

\* A start that ends with an exception leaving the process.
Crash(raised, missing) ==
    [boot EXCEPT !.pc = "crashed", !.raised = raised, !.missing = missing]

\* The process is started in some environment; nothing is constructed yet,
\* the fields of the bot do not exist before __init__ and hold placeholders.
StartupInit ==
    /\ \E present \in SUBSET RequiredVars :
          boot = Boot("start", present, {}, FALSE, "none", {})
    /\ is_running = FALSE
    /\ task = NoTask
    /\ max_price_multiplier = 0
    /\ check_interval = 0
    /\ tasks = [t \in TaskIds |-> Frame("none")]
    /\ buying = NoBuy
    /\ out = Out("init", 0, "none", "none", {}, <<>>)

\* Importing utils.config runs the class body of Config: line 15 applies int
\* to every piece of ALLOWED_USERS, and int('') of the unset variable raises
\* ValueError out of the import.
ImportConfig ==
    /\ boot.pc = "start"
    /\ boot' = IF "ALLOWED_USERS" \in boot.present
               THEN [boot EXCEPT !.pc = "imported"]
               ELSE Crash("ValueError", {})
    /\ UNCHANGED <<monitor, buying, out>>

\* `bot = NFTSniperBot()` of __main__ (line 261): __init__ constructs the
\* OpenSeaMonitor, whose Account.from_key raises for the unset private key
\* (opensea_monitor.py line 22), then sets the fields of the bot from the
\* settings Config read from the environment.
ConstructBot ==
    /\ boot.pc = "imported"
    /\ IF "ETH_PRIVATE_KEY" \in boot.present
       THEN \E env \in EnvSettings :
               /\ boot' = [boot EXCEPT !.pc = "constructed",
                              !.built = {"marketplace_client", "monitor"}]
               /\ is_running' = FALSE
               /\ task' = NoTask
               /\ max_price_multiplier' = env.MAX_PRICE_MULTIPLIER
               /\ check_interval' = env.CHECK_INTERVAL
       ELSE /\ boot' = Crash("TypeError", {})
            /\ UNCHANGED <<is_running, task, max_price_multiplier, check_interval>>
    /\ UNCHANGED <<tasks, buying, out>>

\* Config.validate() at the top of run (line 238; config.py lines 24-39):
\* ValueError naming every required variable that is unset; run logs it and
\* raises it again (lines 256-258).
Validate ==
    /\ boot.pc = "constructed"
    /\ LET missing == RequiredVars \ boot.present IN
       boot' = IF missing = {}
               THEN [boot EXCEPT !.pc = "validated", !.validated = TRUE]
               ELSE Crash("ValueError", missing)
    /\ UNCHANGED <<monitor, buying, out>>

\* The Application is built and the handlers are added (lines 241-250).
BuildApplication ==
    /\ boot.pc = "validated"
    /\ boot' = [boot EXCEPT !.pc = "application",
                            !.built = @ \cup {"command_interface"}]
    /\ UNCHANGED <<monitor, buying, out>>

\* app.run_polling() (line 254): from here on commands are handled.
RunPolling ==
    /\ boot.pc = "application"
    /\ boot' = [boot EXCEPT !.pc = "polling"]
    /\ UNCHANGED <<monitor, buying, out>>

StartupNext ==
    \/ ImportConfig
    \/ ConstructBot
    \/ Validate
    \/ BuildApplication
    \/ RunPolling

\* The start of the process, up to the point where commands are handled.
StartupSpec == StartupInit /\ [][StartupNext]_vars

\* The bot once run_polling handles commands: NFTSniperBot.__init__ has run
\* with the settings Config read from the environment.
Init ==
    \E env \in EnvSettings :
       /\ boot = Boot("polling", RequiredVars, Components, TRUE, "none", {})
       /\ is_running = FALSE
       /\ task = NoTask
       /\ max_price_multiplier = env.MAX_PRICE_MULTIPLIER
       /\ check_interval = env.CHECK_INTERVAL
       /\ tasks = [t \in TaskIds |-> Frame("none")]
       /\ buying = NoBuy
       /\ out = Out("init", 0, "none", "none", {}, <<>>)

Next ==
    \/ \E t \in TaskIds : TaskIterate(t)
    \/ \E t \in TaskIds : TaskSendReturn(t)
    \/ \E t \in TaskIds : TaskSendError(t)
    \/ \E t \in TaskIds : TaskCancelled(t)
    \/ \E u \in Users : StartMonitor(u)
    \/ \E u \in Users : StopMonitor(u)
    \/ \E u \in Users : FloorPrice(u)
    \/ \E u \in Users : Settings(u)
    \/ \E u \in Users, arg \in MultiplierArgs : SetMultiplier(u, arg)
    \/ \E u \in Users, arg \in IntervalArgs : SetInterval(u, arg)
    \/ \E u \in Users, head \in {"/buy_", "/buy "}, tok \in BuyTokens : BuyCommand(u, head, tok)
    \/ BuyExecute

Spec == Init /\ [][Next]_vars

\* The event loop runs every callback that is ready: task.cancel() schedules
\* the wake-up of the task (asyncio's call_soon), the handlers return, so a
\* cancelled task is resumed after finitely many other steps.
FairSpec == Spec /\ \A t \in TaskIds : WF_vars(TaskCancelled(t))
----------------------------------------------------------------------------
(* Properties *)


\* A task that still polls: live and not asked to stop.
Polling(t) == Live(t) /\ ~tasks[t].cancelled

\* The operations that handle a command.
CommandOps ==
    {"start_monitor", "stop_monitor", "floor_price", "settings",
     "set_multiplier", "set_interval", "buy"}

\* C1: at most one poll task polls at any instant; while one does, it is the
\* task of the handle and is_running is set; a start_monitor handled while
\* is_running answers "already running" and creates no task, also when the
\* task cancelled by an earlier stop_monitor has not exited yet.
C1_AtMostOneCycle ==
    [][ /\ \A t1, t2 \in TaskIds :
              (Polling(t1) /\ Polling(t2))' => t1 = t2
        /\ \A t \in TaskIds :
              Polling(t)' => (task' = t /\ is_running')
        /\ (is_running /\ out'.op = "start_monitor")
              => (out'.reply = "already_running" /\ tasks' = tasks /\ task' = task) ]_vars

\* C1 witness: a task cancelled by stop_monitor is still live while the task
\* of a later start_monitor polls.
C1_Witness ==
    \E t1, t2 \in TaskIds :
       /\ Live(t1) /\ tasks[t1].cancelled
       /\ Polling(t2) /\ tasks[t2].pc = "send"

\* C2 as claimed: is_running is true exactly when some poll task is live
\* (created and not finished).
C2_RunningIffTaskLive == is_running <=> (\E t \in TaskIds : Live(t))

\* C2 amended: is_running is true exactly when a poll task is live and not
\* cancelled, and that task is the one of the handle; while is_running is
\* false every live task has its cancellation pending.
C2_RunningIffTaskPolling ==
    /\ is_running <=> (\E t \in TaskIds : Polling(t))
    /\ is_running => (task # NoTask /\ Polling(task))
    /\ ~is_running => \A t \in TaskIds : Live(t) => tasks[t].cancelled

\* C2 witness: after an accepted stop_monitor the cancelled task has not
\* exited yet.
C2_Witness ==
    /\ ~is_running
    /\ out.op = "stop_monitor" /\ out.reply = "stopped"
    /\ \E t \in TaskIds : Live(t) /\ tasks[t].cancelled

\* C3 as claimed: a command of a caller outside the allow-list changes neither
\* the monitor state nor the settings, starts no purchase and calls neither
\* the marketplace nor the purchase.
C3_UnauthorizedNoEffect ==
    [][ (out'.op \in CommandOps /\ out'.user \notin ALLOWED_USERS)
           => (UNCHANGED <<monitor, buying>> /\ out'.calls = {}) ]_vars

\* C4: buy_nft is called only by the buy command of an allow-listed caller,
\* and only such a caller has a purchase pending; no step of the poll task
\* calls it.
C4_PurchaseOnlyByBuyCommand ==
    /\ "buy_nft" \in out.calls => (out.op = "buy" /\ out.user \in ALLOWED_USERS)
    /\ buying # NoBuy => buying[1].user \in ALLOWED_USERS
    /\ out.op = "poll" => "buy_nft" \notin out.calls

\* C4 witness: a purchase was attempted while a poll task has a match
\* notification under way.
C4_Witness ==
    /\ "buy_nft" \in out.calls
    /\ \E t \in TaskIds : Polling(t) /\ tasks[t].sent # <<>>

\* A task suspended inside or at the end of an iteration that fetched
\* listings.
Scanning(t) == Polling(t) /\ tasks[t].pc \in {"send", "sleep"}

\* Listing k of the batch of frame f lies within the iteration's ceiling and
\* has the trait.
IsMatch(f, k) ==
    /\ f.listings[k].amount # <<>>
    /\ f.listings[k].amount[1] * 100 <= f.max_price
    /\ f.listings[k].acc

\* The matching listings among the first n of the batch, in batch order.
MatchSeq(f, n) == SelectSeq([k \in 1..n |-> k], LAMBDA k : IsMatch(f, k))

Range(q) == { q[k] : k \in 1..Len(q) }

\* C5 as claimed: when an iteration has ended, whatever happened during its
\* scan, exactly the matching listings of its batch were notified, each once.
C5_EveryMatchNotified ==
    \A t \in TaskIds :
       (Polling(t) /\ tasks[t].pc = "sleep")
          => tasks[t].sent = MatchSeq(tasks[t], Len(tasks[t].listings))

\* C5 amended: at every point of a scan the notifications sent so far are
\* exactly the matching listings up to the listing the scan has reached, each
\* once and in batch order; when the iteration ends without an exception
\* (unparseable listing, failed send) they are all matching listings of the
\* batch.
C5_MatchesNotifiedUnlessAborted ==
    \A t \in TaskIds :
       Scanning(t) =>
          /\ tasks[t].sent = MatchSeq(tasks[t], tasks[t].i)
          /\ (tasks[t].pc = "sleep" /\ ~tasks[t].failed)
                => tasks[t].sent = MatchSeq(tasks[t], Len(tasks[t].listings))

\* C5 witness: an iteration ended normally after notifying two or more
\* listings.
C5_Witness ==
    \E t \in TaskIds :
       /\ Polling(t) /\ tasks[t].pc = "sleep" /\ ~tasks[t].failed
       /\ Len(tasks[t].sent) >= 2

\* The batch of the scenario: A 0.9 without the trait, B 1.05 with it, C 1.2.
ScenarioBatch ==
    << Listing("A", <<90>>, FALSE), Listing("B", <<105>>, TRUE),
       Listing("C", <<120>>, TRUE) >>

\* C6: once the scan has reached a listing priced above the ceiling, neither
\* that listing nor any later one of the batch has had a trait lookup or a
\* notification; with floor 1.0, multiplier 1.1 and the scenario's batch the
\* iteration looks up A and B, notifies B only and never looks up C.
C6_EarlyExit ==
    \A t \in TaskIds :
       Scanning(t) =>
          /\ \A j \in 1..Len(tasks[t].listings) :
                ( /\ j <= tasks[t].i
                  /\ tasks[t].listings[j].amount # <<>>
                  /\ tasks[t].listings[j].amount[1] * 100 > tasks[t].max_price )
                => \A k \in j..Len(tasks[t].listings) :
                      k \notin Range(tasks[t].looked) \cup Range(tasks[t].sent)
          /\ ( /\ tasks[t].floor_price = <<100>>
               /\ tasks[t].multiplier0 = 110
               /\ tasks[t].listings = ScenarioBatch
               /\ tasks[t].pc = "sleep" /\ ~tasks[t].failed )
             => (tasks[t].looked = <<1, 2>> /\ tasks[t].sent = <<2>>)

\* C6 witness: the scenario's iteration has ended at listing C.
C6_Witness ==
    \E t \in TaskIds :
       /\ Polling(t) /\ tasks[t].pc = "sleep" /\ ~tasks[t].failed
       /\ tasks[t].listings = ScenarioBatch
       /\ tasks[t].max_price = 100 * 110
       /\ tasks[t].i = 3 /\ tasks[t].sent = <<2>>

\* C7 as claimed: the stored multiplier is in (0, 2] and the stored interval
\* in [30, 3600] in every reachable state.
C7_SettingsInRange ==
    /\ 0 < max_price_multiplier /\ max_price_multiplier <= 200
    /\ 30 <= check_interval /\ check_interval <= 3600

\* C8: a set_multiplier of an allow-listed caller whose argument is a number
\* v <= 0 or v > 2, and a set_interval whose argument is an integer s < 30 or
\* s > 3600, leave multiplier, interval and monitor unchanged and answer with
\* the range error.
C8_OutOfRangeRejected ==
    [][ /\ out'.op = "set_multiplier" =>
              \A u \in ALLOWED_USERS, arg \in MultiplierArgs :
                 ( /\ out'.user = u
                   /\ arg.kind = "num" /\ (arg.units <= 0 \/ arg.units > 200)
                   /\ SetMultiplier(u, arg) )
                 => (UNCHANGED monitor /\ out'.reply = "out_of_range"
                                       /\ out'.raised = "none")
        /\ out'.op = "set_interval" =>
              \A u \in ALLOWED_USERS, arg \in IntervalArgs :
                 ( /\ out'.user = u
                   /\ arg.kind = "num" /\ arg.isint
                   /\ (arg.units < 30 * 100 \/ arg.units > 3600 * 100)
                   /\ SetInterval(u, arg) )
                 => (UNCHANGED monitor /\ out'.reply = "out_of_range"
                                       /\ out'.raised = "none") ]_vars

\* C8 witness: an allow-listed caller was answered with the range error while
\* a poll task is running.
C8_Witness ==
    /\ out.op \in {"set_multiplier", "set_interval"}
    /\ out.user \in ALLOWED_USERS
    /\ out.reply = "out_of_range"
    /\ is_running

\* C9 as claimed: a setter of an allow-listed caller without an argument or
\* with an argument that is no number answers with a validation error, raises
\* nothing and changes no setting.
C9_ParseFailureReported ==
    [][ /\ out'.op = "set_multiplier" =>
              \A u \in ALLOWED_USERS, arg \in MultiplierArgs :
                 ( /\ out'.user = u
                   /\ arg.kind \in {"missing", "text"} /\ SetMultiplier(u, arg) )
                 => (UNCHANGED monitor /\ out'.reply = "invalid_number"
                                       /\ out'.raised = "none")
        /\ out'.op = "set_interval" =>
              \A u \in ALLOWED_USERS, arg \in IntervalArgs :
                 ( /\ out'.user = u
                   /\ arg.kind \in {"missing", "text"} /\ SetInterval(u, arg) )
                 => (UNCHANGED monitor /\ out'.reply = "invalid_number"
                                       /\ out'.raised = "none") ]_vars

\* C10: every price comparison of an iteration uses the ceiling
\* floor price x the multiplier stored when the iteration began, also when a
\* set_multiplier was accepted while the iteration was suspended.
C10_CeilingFixedPerIteration ==
    \A t \in TaskIds :
       Scanning(t) =>
          /\ tasks[t].max_price = tasks[t].floor_price[1] * tasks[t].multiplier0
          /\ tasks[t].ceilings \subseteq
                {tasks[t].floor_price[1] * tasks[t].multiplier0}

\* C10 witness: an iteration made a comparison after the stored multiplier had
\* been changed under it.
C10_Witness ==
    \E t \in TaskIds :
       /\ Scanning(t) /\ tasks[t].stale
       /\ tasks[t].multiplier0 # max_price_multiplier
       /\ Len(tasks[t].looked) >= 2

\* The interval that was stored when the iteration began that task t is in
\* or, for a task about to begin one, begins with its next step.
IntervalAtStart(t) ==
    IF tasks[t].pc = "send" THEN tasks[t].interval0 ELSE check_interval

\* C11: a set_interval accepted while an iteration is in progress does not
\* change the sleep that ends that iteration: the duration of every sleep is
\* the interval that was stored when its iteration began.
C11_SleepUsesIntervalAtStart ==
    [][ \A t \in TaskIds :
           ( /\ Polling(t) /\ tasks'[t] # tasks[t]
             /\ tasks'[t].pc \in {"sleep", "sleep_retry"} )
           => tasks'[t].slept = IntervalAtStart(t) ]_vars

\* The last step was an accepted stop_monitor.
StopAccepted == out.op = "stop_monitor" /\ out.reply = "stopped"

\* C12: after a stop_monitor accepted while the monitor runs, is_running is
\* false and the task that was live has its cancellation pending; the only
\* step a task with a pending cancellation takes is its exit, and under fair
\* scheduling no cancellation stays pending for ever: the task terminates,
\* whichever suspension point (start, retry sleep, send, inter-cycle sleep)
\* the stop found it at.
C12_StopEndsTask ==
    /\ [](StopAccepted =>
             /\ ~is_running
             /\ task # NoTask
             /\ \A t \in TaskIds : Live(t) => tasks[t].cancelled)
    /\ [][ \A t \in TaskIds :
              (Live(t) /\ tasks[t].cancelled /\ tasks'[t] # tasks[t])
              => tasks'[t].pc = "done" ]_vars
    /\ \A t \in TaskIds : []<>(~(Live(t) /\ tasks[t].cancelled))

\* C12 witness: the task that a stop_monitor cancelled while it was polling
\* has terminated, and the monitor was not started again.
C12_Witness ==
    \E t \in TaskIds :
       /\ task = t /\ tasks[t].pc = "done"
       /\ ~is_running
       /\ out.op = "poll"

\* C13: a stop_monitor issued while the monitor is not running is answered
\* 'not running', cancels nothing and leaves is_running, the task handle, the
\* tasks, the multiplier and the interval as they were.
C13_StopWhenNotRunning ==
    [][ \A u \in Users :
           (out'.op = "stop_monitor" /\ ~is_running /\ StopMonitor(u))
           => (out'.reply = "not_running" /\ UNCHANGED monitor) ]_vars

\* C13 witness: stop_monitor pressed again while the task cancelled by the
\* first press has not exited yet.
C13_Witness ==
    /\ out.op = "stop_monitor" /\ out.reply = "not_running"
    /\ ~is_running
    /\ task # NoTask /\ Live(task) /\ tasks[task].cancelled

\* The token is in none of the listings of the batch.
TokenAbsent(batch, tok) ==
    \A k \in 1..Len(batch) : batch[k].token_id # tok

\* C14: a buy_<tokenId> of an authorized caller whose token is absent from the
\* re-fetched listings (a failed fetch gives the empty list) is answered
\* 'not found or already sold' and makes no purchase attempt.
C14_BuyAbsentToken ==
    [][ (out'.op = "buy" /\ buying = NoBuy) =>
           \A u \in ALLOWED_USERS, tok \in BuyTokens, batch \in Batches :
              ( /\ out'.user = u
                /\ TokenAbsent(batch, tok)
                /\ BuyFrom(u, tok, batch) )
              => /\ out'.reply = "not_found"
                 /\ "buy_nft" \notin out'.calls
                 /\ buying' = NoBuy
                 /\ UNCHANGED monitor ]_vars

\* C14 witness: an authorized buy was answered 'not found' and nothing is
\* left to be bought.
C14_Witness ==
    /\ out.op = "buy" /\ out.reply = "not_found"
    /\ out.user \in ALLOWED_USERS
    /\ out.calls = {"get_listings"}
    /\ buying = NoBuy

\* A step of a setter command issued by a caller outside the allow-list.
UnauthorizedSetter ==
    \/ /\ out'.op = "set_multiplier"
       /\ \E u \in Users \ ALLOWED_USERS, arg \in MultiplierArgs :
             SetMultiplier(u, arg)
    \/ /\ out'.op = "set_interval"
       /\ \E u \in Users \ ALLOWED_USERS, arg \in IntervalArgs :
             SetInterval(u, arg)

\* C15 as stated: an unauthorized caller issuing set_interval or
\* set_multiplier with any argument leaves the stored value unchanged and
\* receives a rejection response.
C15_UnauthorizedSetterRejected ==
    [][ UnauthorizedSetter =>
           (UNCHANGED monitor /\ out'.reply # "none") ]_vars

\* C15 amended: an unauthorized caller issuing set_interval or set_multiplier
\* with any argument leaves the stored value and the rest of the monitor
\* unchanged and is rejected silently: the handler returns without a reply
\* and without raising.
C15_UnauthorizedSetterSilent ==
    [][ UnauthorizedSetter =>
           /\ UNCHANGED monitor
           /\ out'.reply = "none" /\ out'.raised = "none"
           /\ out'.calls = {} ]_vars

\* C15 witness: the last step was a setter command of a caller outside the
\* allow-list.
C15_Witness ==
    /\ out.op \in {"set_multiplier", "set_interval"}
    /\ out.user \notin ALLOWED_USERS
    /\ out.reply = "none"

\* C16: the floor_price command replies with the fetch-failure message if and
\* only if the fetch returned null; for every fetched floor price p >= 0 it
\* replies with p and p x the current multiplier; it changes no monitor state.
C16_FloorPriceReply ==
    [][ \A u \in Users, fp \in FloorResults :
           ( /\ out'.op = "floor_price"
             /\ FloorPrice(u) /\ out' = FloorPriceReply(u, fp) )
           => /\ (out'.reply = "fetch_failed") <=> (fp = <<>>)
              /\ fp # <<>> =>
                    /\ out'.reply = "floor_price"
                    /\ out'.data = <<fp[1], fp[1] * max_price_multiplier>>
              /\ UNCHANGED monitor ]_vars

\* C17: on every startup path configuration validation has completed before
\* any component (marketplace client, monitor, command interface) is
\* constructed, and a startup with a missing required setting never reaches
\* the state where commands are handled.
C17_ValidatedBeforeComponents ==
    /\ boot.built # {} => boot.validated
    /\ boot.pc = "polling" => boot.present = RequiredVars

\* C18: while is_running stays true and no stop_monitor is accepted the poll
\* task never terminates: a task finishes only with a cancellation pending,
\* a failure inside an iteration (parse error, send error) puts the task in
\* the inter-cycle sleep, and the step the task takes from there begins the
\* next iteration with its floor-price fetch.
C18_FailureNeverEndsPolling ==
    [][ \A t \in TaskIds :
           /\ (Live(t) /\ tasks'[t].pc = "done") => tasks[t].cancelled
           /\ (Polling(t) /\ tasks'[t] # tasks[t] /\ tasks'[t].failed)
                 => /\ tasks'[t].pc = "sleep"
                    /\ tasks'[t].slept = check_interval
                    /\ is_running'
           /\ (Polling(t) /\ tasks[t].failed /\ tasks'[t] # tasks[t]
                          /\ ~tasks'[t].cancelled)
                 => /\ tasks[t].pc = "sleep"
                    /\ tasks'[t].pc \in {"sleep_retry", "send", "sleep"}
                    /\ "get_floor_price" \in out'.calls ]_vars

\* C18 witness: an iteration of the running monitor failed on a malformed
\* listing after it had sent a notification, and its task sleeps.
C18_Witness ==
    \E t \in TaskIds :
       /\ is_running /\ task = t /\ Polling(t)
       /\ tasks[t].failed /\ tasks[t].pc = "sleep"
       /\ tasks[t].sent # <<>>
       /\ tasks[t].listings[tasks[t].i].amount = <<>>

\* C19: an iteration whose floor-price fetch fails fetches no listings, looks
\* up no trait and sends no notification; its task sleeps one poll interval
\* and the step it takes from that sleep starts the next iteration with
\* another floor-price fetch; the task does not terminate.
C19_FloorFailureRetries ==
    [][ \A t \in TaskIds :
           /\ ( /\ Polling(t) /\ tasks'[t] # tasks[t]
                /\ "get_floor_price" \in out'.calls
                /\ tasks'[t].floor_price = <<>> )
              => /\ out'.calls = {"get_floor_price"}
                 /\ tasks'[t].pc = "sleep_retry"
                 /\ tasks'[t].slept = check_interval
                 /\ tasks'[t].listings = <<>>
                 /\ tasks'[t].looked = <<>> /\ tasks'[t].sent = <<>>
           /\ ( /\ Polling(t) /\ tasks[t].pc = "sleep_retry"
                /\ tasks'[t] # tasks[t] /\ ~tasks'[t].cancelled )
              => /\ "get_floor_price" \in out'.calls
                 /\ tasks'[t].pc \in {"sleep_retry", "send", "sleep"}
           /\ Polling(t) => tasks'[t].pc # "done" ]_vars

\* C19 witness: the last step was an iteration that got no floor price, and
\* its task is in the retry sleep.
C19_Witness ==
    \E t \in TaskIds :
       /\ Polling(t) /\ tasks[t].pc = "sleep_retry"
       /\ tasks[t].floor_price = <<>>
       /\ tasks[t].slept = check_interval
       /\ out.op = "poll" /\ out.calls = {"get_floor_price"}

\* C20: once an accepted stop_monitor has been processed, the task that was
\* live (its cancellation is pending) takes no step but its exit: it sends no
\* further notification and begins no further iteration, also when
\* start_monitor is accepted again before it has exited; every step that
\* polls the marketplace or notifies is a step of the task the handle names.
C20_StoppedTaskDoesNothing ==
    [][ /\ \A t \in TaskIds :
              (Live(t) /\ tasks[t].cancelled)
              => \/ tasks'[t] = tasks[t]
                 \/ /\ tasks'[t].pc = "done"
                    /\ out'.op = "poll" /\ out'.calls = {}
        /\ (out'.op = "poll" /\ out'.calls # {} /\ tasks' # tasks)
              => /\ is_running /\ task # NoTask
                 /\ Polling(task)
                 /\ \A s \in TaskIds \ {task} : tasks'[s] = tasks[s] ]_vars

\* C20 witness: the monitor was stopped while its task was suspended in a
\* send and started again before that task exited; the new task has sent a
\* notification while the old one is still there.
C20_Witness ==
    \E old \in TaskIds, new \in TaskIds :
       /\ old # new
       /\ Live(old) /\ tasks[old].cancelled /\ tasks[old].pc = "send"
       /\ is_running /\ task = new /\ Polling(new)
       /\ tasks[new].sent # <<>>
       /\ out.op = "poll" /\ "send_message" \in out.calls

====
